---- MODULE Spec2Model ----
(***************************************************************************)
(* OAuth2 Authorization Code + PKCE session controller of the Trino OAuth  *)
(* demo front end: the AuthProvider React context (mount effect,           *)
(* checkExistingAuth, handleCallback, login, logout, getToken), the oauth  *)
(* helpers it calls, browser session storage, the page (URL, navigation)   *)
(* and the two network calls to the backend intermediary.                  *)
(*                                                                         *)
(* One action is one synchronous run of JavaScript: a handler up to its    *)
(* first await, or the continuation after an await.  React batches the     *)
(* state setters of one synchronous run into one update.                   *)
(***************************************************************************)
EXTENDS Integers, Sequences, FiniteSets, TLC

\* ------------------------------------------------------------------ values
\* null / undefined of JavaScript (both falsy, both "absent")
NONE == "<none>"
\* String(undefined): what sessionStorage.setItem(key, undefined) stores
UndefStr == "undefined"

\* JavaScript truthiness of a string-or-absent value
Truthy(x) == x # NONE /\ x # ""

\* a || b
Or(a, b) == IF Truthy(a) THEN a ELSE b

\* ------------------------------------------------------------------ bounds
MaxLoads == 2      \* page loads after the first one
MaxTicks == 1      \* clock steps
MaxGets == 1       \* getToken refreshes in flight at once
MaxLogins == 1     \* login() calls suspended at the challenge computation
MaxOverlap == 2    \* overlapping calls of one operation, where overlap is examined

\* clock step in milliseconds
TickMs == 5000

\* ------------------------------------------------------------------ tokens
\* The token universe the provider draws from.  Access tokens: one opaque,
\* one structured with an exp claim (seconds).
OpaqueAT == "ya29.opaque"
AccessTokens == {OpaqueAT, "h.exp10.s"}
IdTokens == {"h.id.s"}
RefreshTokens == {"r1", "r2"}
Codes == {"c1"}
States == {"s1", "s2"}
\* the values generateRandomString draws for the state parameter
GeneratedStates == {"s1"}
Verifiers == {"v1"}

NoClaims == [ok |-> FALSE, sub |-> NONE, email |-> NONE, name |-> NONE,
             preferred_username |-> NONE, picture |-> NONE, exp |-> 0]

\* decodeJWT: the payload jwtDecode reads from the second dot-separated segment
\* (it does not count the segments), null (ok = FALSE) when that fails.
\* exp = 0 stands for "no exp claim" (JavaScript: !decoded.exp).
decodeJWT(token) ==
  CASE token = "h.exp10.s" -> [NoClaims EXCEPT !.ok = TRUE, !.sub = "u1", !.exp = 10]
    [] token = "x.exp10"  -> [NoClaims EXCEPT !.ok = TRUE, !.sub = "u1", !.exp = 10]
    [] token = "h.named.s" -> [NoClaims EXCEPT !.ok = TRUE, !.sub = "u2",
                                               !.name = "Alice A",
                                               !.preferred_username = "alice",
                                               !.picture = "https://p/a.png",
                                               !.exp = 10]
    [] token = "h.emptyname.s" -> [NoClaims EXCEPT !.ok = TRUE, !.sub = "u3",
                                                   !.name = "",
                                                   !.preferred_username = "alice",
                                                   !.email = "a@b.com"]
    [] token = "h.id.s"   -> [NoClaims EXCEPT !.ok = TRUE, !.sub = "u1",
                                              !.email = "a@b.com",
                                              !.preferred_username = "alice"]
    [] OTHER -> NoClaims

\* isTokenExpired without the 5 s buffer
isTokenExpired_NoBuffer(token, t) ==
  IF ~Truthy(token) THEN TRUE
  ELSE LET decoded == decodeJWT(token) IN
       IF ~decoded.ok \/ decoded.exp = 0 THEN FALSE
       ELSE t >= decoded.exp * 1000

\* isTokenExpired that compares with > instead of >=
isTokenExpired_Strict(token, t) ==
  IF ~Truthy(token) THEN TRUE
  ELSE LET decoded == decodeJWT(token) IN
       IF ~decoded.ok \/ decoded.exp = 0 THEN FALSE
       ELSE t > (decoded.exp * 1000) - 5000

\* isTokenExpired(token) at time t (ms since epoch)
isTokenExpired(token, t) ==
  IF ~Truthy(token) THEN TRUE
  ELSE LET decoded == decodeJWT(token) IN
       IF ~decoded.ok \/ decoded.exp = 0 THEN FALSE
       ELSE t >= (decoded.exp * 1000) - 5000

\* ------------------------------------------------------------------ user
NullUser == [nil |-> TRUE, sub |-> NONE, email |-> NONE, name |-> NONE, picture |-> NONE]

\* the userInfo object handleCallback builds from the decoded claims
userInfoOf(decoded) ==
  [nil |-> FALSE, sub |-> decoded.sub, email |-> decoded.email,
   name |-> Or(decoded.name, Or(decoded.preferred_username, decoded.email)),
   picture |-> decoded.picture]

UserFields == {"sub", "email", "name", "picture"}

\* JSON.stringify drops the members whose value is undefined
NoJSON == {<<"<absent>", NONE>>}
JSONstringify(u) == {<<f, u[f]>> : f \in {g \in UserFields : u[g] # NONE}}
JSONget(j, f) == IF \E p \in j : p[1] = f THEN (CHOOSE p \in j : p[1] = f)[2] ELSE NONE
JSONparse(j) == [nil |-> FALSE, sub |-> JSONget(j, "sub"), email |-> JSONget(j, "email"),
                 name |-> JSONget(j, "name"), picture |-> JSONget(j, "picture")]

\* ------------------------------------------------------------------ storage
\* sessionStorage: the six string keys and the JSON-valued user key
EmptyStorage ==
  [access_token |-> NONE, id_token |-> NONE, refresh_token |-> NONE,
   oauth_state |-> NONE, code_verifier |-> NONE, processing_callback |-> NONE,
   user |-> NoJSON]

\* sessionStorage.setItem(key, value) converts value to a string
Str(v) == IF v = NONE THEN UndefStr ELSE v

\* ------------------------------------------------------------------ URL
\* what a URL fragment can carry as access_token: any string, none of them
\* issued by the intermediary
FragmentTokens == {"frag.token"}

\* hashToken: the access_token parameter of window.location.hash
NoQuery == [code |-> NONE, state |-> NONE, error |-> NONE, errorDescription |-> NONE,
            hashToken |-> NONE]

\* the callback URLs the tab can be sent to; error_description is varied only
\* next to a non-empty error (the handler reads it nowhere else), a fragment
\* token only next to a query string without a code
CallbackQueries ==
  {q \in [code : {NONE} \cup Codes,
          state : {NONE} \cup States,
          error : {NONE, "", "access_denied"},
          errorDescription : {NONE, "", "User denied access"},
          hashToken : {NONE} \cup FragmentTokens] :
     /\ q.error \in {NONE, ""} => q.errorDescription = NONE
     /\ q.hashToken # NONE => q.code = NONE}

\* ------------------------------------------------------------------ configuration
\* import.meta.env: each setting absent, empty or given
Envs ==
  [VITE_OAUTH_AUTHORIZATION_URL : {"https://idp.example/authorize"},
   VITE_OAUTH_CLIENT_ID : {NONE, "", "trino-ui"},
   VITE_OAUTH_REDIRECT_URI : {NONE, "https://app.example/callback"},
   VITE_OAUTH_SCOPE : {NONE, "", "openid"}]

\* the build the session controller is explored with
DeployedEnv ==
  [VITE_OAUTH_AUTHORIZATION_URL |-> "https://idp.example/authorize",
   VITE_OAUTH_CLIENT_ID |-> NONE, VITE_OAUTH_REDIRECT_URI |-> NONE,
   VITE_OAUTH_SCOPE |-> NONE]

\* the implicit-flow configuration of the earlier revision
getOAuthConfig_Implicit(e) ==
  [authorizationUrl |-> e.VITE_OAUTH_AUTHORIZATION_URL,
   clientId |-> Or(e.VITE_OAUTH_CLIENT_ID, "query-app"),
   redirectUri |-> Or(e.VITE_OAUTH_REDIRECT_URI, "http://localhost:5173/callback"),
   scope |-> Or(e.VITE_OAUTH_SCOPE, "openid profile email"),
   responseType |-> "token",
   usePKCE |-> FALSE]

getOAuthConfig(e) ==
  [authorizationUrl |-> e.VITE_OAUTH_AUTHORIZATION_URL,
   clientId |-> Or(e.VITE_OAUTH_CLIENT_ID, "query-app"),
   redirectUri |-> Or(e.VITE_OAUTH_REDIRECT_URI, "http://localhost:5173/callback"),
   scope |-> Or(e.VITE_OAUTH_SCOPE, "openid profile email"),
   responseType |-> "code",
   usePKCE |-> TRUE]

\* the values generateRandomString draws for the nonce parameter
Nonces == {"n1"}

\* the values generateCodeVerifier draws when two logins overlap
LoginVerifiers == {"v1", "v2"}

\* crypto.subtle.digest('SHA-256', data): the digest of a verifier, as a table
digest(data) ==
  CASE data = "v1" -> "sha256-of-v1"
    [] data = "v2" -> "sha256-of-v2"
    [] OTHER -> "sha256-of-other"

\* btoa(String.fromCharCode(...new Uint8Array(buffer))): the standard base64
\* text of a digest, one character per element (shortened: a real digest
\* gives 43 characters and one "=")
btoa(buffer) ==
  CASE buffer = "sha256-of-v1" -> <<"a", "+", "b", "/", "c", "=">>
    [] buffer = "sha256-of-v2" -> <<"+", "/", "/", "y", "+", "=">>
    [] OTHER -> <<"o", "=">>

\* String.prototype.replace(/x/g, y) on a text given character by character
ReplaceAll(text, x, y) == [i \in DOMAIN text |-> IF text[i] = x THEN y ELSE text[i]]

\* String.prototype.replace(/x/g, '')
RemoveAll(text, x) == SelectSeq(text, LAMBDA c : c # x)

\* the string of a text given character by character
RECURSIVE JoinChars(_)
JoinChars(text) == IF text = <<>> THEN "" ELSE Head(text) \o JoinChars(Tail(text))

\* base64UrlEncode that keeps the "=" padding
base64UrlEncode_KeepsPadding(buffer) ==
  JoinChars(ReplaceAll(ReplaceAll(btoa(buffer), "+", "-"), "/", "_"))

\* base64UrlEncode: "+" to "-", "/" to "_", "=" removed
base64UrlEncode(buffer) ==
  JoinChars(RemoveAll(ReplaceAll(ReplaceAll(btoa(buffer), "+", "-"), "/", "_"), "="))

\* generateCodeChallenge: base64url(SHA-256(verifier))
generateCodeChallenge(verifier) == base64UrlEncode(digest(verifier))

\* buildAuthorizationUrl appends the PKCE parameters
UsesPKCE(config) == config.usePKCE /\ config.responseType = "code"

\* a URL: what stands before the "?", and the URLSearchParams entries in order
NoUrl == [base |-> NONE, params |-> <<>>]
HomeUrl == [base |-> "/", params |-> <<>>]

\* the URL buildAuthorizationUrl returns
buildAuthorizationUrl(config, state, nonce, challenge) ==
  LET params == << <<"client_id", config.clientId>>,
                   <<"redirect_uri", config.redirectUri>>,
                   <<"response_type", config.responseType>>,
                   <<"scope", config.scope>>,
                   <<"state", state>>,
                   <<"nonce", nonce>> >>
  IN [base |-> config.authorizationUrl,
      params |-> IF UsesPKCE(config)
                 THEN params \o << <<"code_challenge", challenge>>,
                                   <<"code_challenge_method", "S256">> >>
                 ELSE params]

\* ------------------------------------------------------------------ network
\* bodies the intermediary can answer with
TokenResponses ==
  [access_token : {NONE} \cup AccessTokens,
   id_token : {NONE} \cup IdTokens,
   refresh_token : {NONE} \cup RefreshTokens]

NoResponse == [access_token |-> NONE, id_token |-> NONE, refresh_token |-> NONE]

\* errorData.message of a non-success answer (absent or given)
ErrorMessages == {NONE, "invalid_grant"}

VARIABLES
  \* React state of AuthProvider
  user, accessToken, idToken, isAuthenticated, isLoading, error,
  \* browser
  storage,     \* sessionStorage
  pathname,    \* window.location.pathname
  query,       \* parsed window.location.search, and the fragment's token
  href,        \* navigation requested through window.location.href (NoUrl: none)
  timer,       \* the 3 s redirect timer of a failed callback is armed
  mounts,      \* times the mount effect has fired on this page
  strict,      \* the app is rendered inside React.StrictMode (dev build)
  subtleOk,    \* crypto.subtle is available (secure context)
  env,         \* import.meta.env: the VITE_OAUTH_* settings of the build
  now,         \* Date.now()
  loads,       \* page loads so far
  call,        \* the helper call under examination: arguments and return value
  loggedOut,   \* logout() has run on this page
  \* network and suspended calls
  net,         \* requests in flight, each owned by a suspended call
  logins,      \* login() calls suspended at the challenge computation
  \* history
  last,        \* the last completed synchronous run and what it did
  trig,        \* per firing of the mount effect on this page: sent an exchange?
  exchCount,   \* exchange requests sent so far, per authorization code
  failedCodes  \* authorization codes whose exchange has failed

vars == <<user, accessToken, idToken, isAuthenticated, isLoading, error,
          storage, pathname, query, href, timer, mounts, strict, subtleOk, env, now,
          loads, call, loggedOut, net, logins, last, trig, exchCount, failedCodes>>

reactVars == <<user, accessToken, idToken, isAuthenticated, isLoading, error>>

\* ------------------------------------------------------------------ history
NoLast == [op |-> "init", saved |-> NONE, state |-> NONE, sent |-> FALSE,
           ret |-> NONE, rt |-> NONE, resp |-> NoResponse, wasAuth |-> FALSE,
           wasLoading |-> TRUE, bearer |-> NONE]

\* ------------------------------------------------------------------ start
\* A fresh browser tab opened on the application root, in a build with
\* settings e.
InitEnv(e) ==
  /\ env = e
  /\ user = NullUser /\ accessToken = NONE /\ idToken = NONE
  /\ isAuthenticated = FALSE /\ isLoading = TRUE /\ error = NONE
  /\ storage = EmptyStorage
  /\ pathname = "/" /\ query = NoQuery /\ href = NoUrl /\ timer = FALSE
  /\ mounts = 0
  /\ strict \in BOOLEAN
  /\ subtleOk \in BOOLEAN
  /\ now = 0 /\ loads = 0 /\ loggedOut = FALSE
  /\ net = {} /\ logins = {}
  /\ last = NoLast /\ trig = <<>>
  /\ exchCount = [c \in Codes |-> 0]
  /\ failedCodes = {}

\* no helper call is under examination
NoCall == [fn |-> "none"]

Init == InitEnv(DeployedEnv) /\ call = NoCall

\* the mount effect fires once, and once more under React.StrictMode
MountsNeeded == IF strict THEN 2 ELSE 1

\* the first commit is over: event handlers and network callbacks can run
Mounted == mounts = MountsNeeded

\* ------------------------------------------------------------------ oauth.js
\* a comparison that ignores letter case and surrounding blanks
Normalized(v) == IF v \in {"S1", " s1"} THEN "s1" ELSE v

\* verifyState that normalises both values before comparing them
verifyState_Normalized(st, receivedState) ==
  Normalized(st.oauth_state) = Normalized(receivedState)

\* verifyState(receivedState) against the given sessionStorage
verifyState(st, receivedState) == st.oauth_state = receivedState

\* ------------------------------------------------------------------ handleCallback
\* the message thrown for a provider-reported error
CallbackErrorMessage_ErrorOnly(queryResult) == queryResult.error

CallbackErrorMessage(queryResult) == Or(queryResult.errorDescription, queryResult.error)

\* the catch block without sessionStorage.clear()
CallbackFail_NoClear(msg, rec) ==
  /\ error' = msg
  /\ storage' = storage
  /\ timer' = TRUE
  /\ isLoading' = FALSE
  /\ last' = rec
  /\ UNCHANGED <<user, accessToken, idToken, isAuthenticated, pathname, query, href>>

\* catch + finally of handleCallback
CallbackFail(msg, rec) ==
  /\ error' = msg
  /\ storage' = EmptyStorage
  /\ timer' = TRUE
  /\ isLoading' = FALSE
  /\ last' = rec
  /\ UNCHANGED <<user, accessToken, idToken, isAuthenticated, pathname, query, href>>

\* handleCallback up to its first await, run on sessionStorage st
handleCallback(st) ==
  LET queryResult == query
      rec == [NoLast EXCEPT !.op = "handleCallback",
                            !.saved = st.oauth_state, !.state = queryResult.state,
                            !.wasAuth = isAuthenticated,
                            !.wasLoading = isLoading]
  IN
  IF Truthy(queryResult.error)
  THEN /\ CallbackFail(CallbackErrorMessage(queryResult), rec)
       /\ trig' = Append(trig, FALSE)
       /\ UNCHANGED <<net, exchCount, failedCodes>>
  ELSE IF Truthy(queryResult.state) /\ ~verifyState(st, queryResult.state)
  THEN /\ CallbackFail("Invalid state parameter - possible CSRF attack", rec)
       /\ trig' = Append(trig, FALSE)
       /\ UNCHANGED <<net, exchCount, failedCodes>>
  ELSE IF Truthy(queryResult.code)
  THEN \* exchangeCodeForTokens: read the verifier, POST, suspend
       /\ net' = net \cup {[op |-> "exchange", owner |-> "callback", id |-> mounts + 1,
                            code |-> queryResult.code, cv |-> st.code_verifier,
                            state |-> queryResult.state,
                            rt |-> NONE, user |-> NoJSON]}
       /\ exchCount' = [exchCount EXCEPT ![queryResult.code] = @ + 1]
       /\ storage' = st
       /\ trig' = Append(trig, TRUE)
       /\ last' = [rec EXCEPT !.sent = TRUE]
       /\ UNCHANGED <<reactVars, pathname, query, href, timer, failedCodes>>
  ELSE /\ CallbackFail("No authorization code received", rec)
       /\ trig' = Append(trig, FALSE)
       /\ UNCHANGED <<net, exchCount, failedCodes>>

\* ------------------------------------------------------------------ checkExistingAuth
checkExistingAuth ==
  LET storedAccessToken == storage.access_token
      storedIdToken == storage.id_token
      storedRefreshToken == storage.refresh_token
      storedUser == storage.user
      rec == [NoLast EXCEPT !.op = "checkExistingAuth", !.wasAuth = isAuthenticated,
                            !.wasLoading = isLoading]
  IN
  /\ trig' = Append(trig, FALSE)
  /\ UNCHANGED <<pathname, query, href, timer, exchCount, failedCodes, error>>
  /\ IF Truthy(storedAccessToken)
     THEN IF ~isTokenExpired(storedAccessToken, now)
          THEN /\ accessToken' = storedAccessToken
               /\ idToken' = storedIdToken
               /\ user' = IF storedUser # NoJSON THEN JSONparse(storedUser) ELSE NullUser
               /\ isAuthenticated' = TRUE
               /\ isLoading' = FALSE
               /\ last' = [rec EXCEPT !.ret = storedAccessToken]
               /\ UNCHANGED <<storage, net>>
          ELSE IF Truthy(storedRefreshToken)
          THEN \* refreshAccessToken: POST, suspend
               /\ net' = net \cup {[op |-> "refresh", owner |-> "start", id |-> mounts + 1,
                                    code |-> NONE, cv |-> NONE, state |-> NONE,
                                    rt |-> storedRefreshToken, user |-> storedUser]}
               /\ last' = [rec EXCEPT !.sent = TRUE, !.rt = storedRefreshToken]
               /\ UNCHANGED <<reactVars, storage>>
          ELSE /\ storage' = EmptyStorage
               /\ isLoading' = FALSE
               /\ last' = rec
               /\ UNCHANGED <<user, accessToken, idToken, isAuthenticated, net>>
     ELSE /\ isLoading' = FALSE
          /\ last' = rec
          /\ UNCHANGED <<user, accessToken, idToken, isAuthenticated, storage, net>>

\* ------------------------------------------------------------------ mount effect
\* the mount effect without the processing_callback guard
MountEffect_Unguarded ==
  /\ mounts < MountsNeeded
  /\ mounts' = mounts + 1
  /\ UNCHANGED <<strict, subtleOk, env, now, loads, call, loggedOut, logins>>
  /\ IF pathname = "/callback"
     THEN handleCallback(storage)
     ELSE checkExistingAuth

\* the mount effect whose callback branch takes a token from the URL fragment,
\* as the implicit-flow revision of handleCallback did
MountEffect_HashFragment ==
  /\ mounts < MountsNeeded
  /\ mounts' = mounts + 1
  /\ UNCHANGED <<strict, subtleOk, env, now, loads, call, loggedOut, logins>>
  /\ IF pathname = "/callback"
     THEN IF Truthy(query.hashToken)
          THEN /\ storage' = [storage EXCEPT !.access_token = query.hashToken]
               /\ accessToken' = query.hashToken
               /\ idToken' = NONE
               /\ isAuthenticated' = TRUE
               /\ isLoading' = FALSE
               /\ pathname' = "/" /\ query' = NoQuery
               /\ trig' = Append(trig, FALSE)
               /\ last' = [NoLast EXCEPT !.op = "handleCallback.done",
                                         !.ret = query.hashToken,
                                         !.wasAuth = isAuthenticated,
                                         !.wasLoading = isLoading]
               /\ UNCHANGED <<user, error, href, timer, net, exchCount, failedCodes>>
          ELSE handleCallback([storage EXCEPT !.processing_callback = "true"])
     ELSE checkExistingAuth

\* useEffect(() => {...}, []) of AuthProvider
MountEffect ==
  /\ mounts < MountsNeeded
  /\ mounts' = mounts + 1
  /\ UNCHANGED <<strict, subtleOk, env, now, loads, call, loggedOut, logins>>
  /\ LET isProcessingCallback == storage.processing_callback IN
     IF pathname = "/callback"
     THEN IF ~Truthy(isProcessingCallback)
          THEN handleCallback([storage EXCEPT !.processing_callback = "true"])
          ELSE \* already processing, just wait
               /\ isLoading' = FALSE
               /\ trig' = Append(trig, FALSE)
               /\ last' = [NoLast EXCEPT !.op = "mount.skip",
                                         !.wasAuth = isAuthenticated,
                                         !.wasLoading = isLoading]
               /\ UNCHANGED <<user, accessToken, idToken, isAuthenticated, error,
                              storage, pathname, query, href, timer, net, exchCount, failedCodes>>
     ELSE checkExistingAuth

\* ------------------------------------------------------------------ exchange answers
\* the thrown message of exchangeCodeForTokens on !response.ok
ExchangeErrorMessage_NoFallback(m) == m

ExchangeErrorMessage(m) == Or(m, "Token exchange failed: 400")

\* sessionStorage after the setItem calls that store a token result
StoreTokenResult(st, tokenResult) ==
  LET s1 == [st EXCEPT !.access_token = Str(tokenResult.access_token)]
      s2 == IF Truthy(tokenResult.id_token)
            THEN [s1 EXCEPT !.id_token = tokenResult.id_token] ELSE s1
  IN IF Truthy(tokenResult.refresh_token)
     THEN [s2 EXCEPT !.refresh_token = tokenResult.refresh_token] ELSE s2

\* the exchange answered 2xx with body data: rest of exchangeCodeForTokens,
\* then rest of handleCallback
ExchangeOk(r, data) ==
  LET st1 == [storage EXCEPT !.code_verifier = NONE]
      rec == [NoLast EXCEPT !.op = "handleCallback.answered", !.state = r.state,
                            !.resp = data, !.wasAuth = isAuthenticated,
                            !.wasLoading = isLoading]
  IN
  /\ Mounted
  /\ r \in net /\ r.op = "exchange"
  /\ net' = net \ {r}
  /\ UNCHANGED <<mounts, strict, subtleOk, env, now, loads, call, loggedOut, logins, trig, exchCount>>
  /\ IF ~Truthy(data.access_token)
     THEN /\ CallbackFail("No access token received from token exchange",
                          [rec EXCEPT !.op = "handleCallback.failed"])
          /\ failedCodes' = failedCodes \cup {r.code}
     ELSE LET st2 == StoreTokenResult(st1, data)
              tokenToDecode == Or(data.id_token, data.access_token)
              decoded == decodeJWT(tokenToDecode)
              st3 == IF decoded.ok
                     THEN [st2 EXCEPT !.user = JSONstringify(userInfoOf(decoded))]
                     ELSE st2
          IN
          /\ user' = IF decoded.ok THEN userInfoOf(decoded) ELSE user
          /\ accessToken' = data.access_token
          /\ idToken' = data.id_token
          /\ isAuthenticated' = TRUE
          /\ storage' = [st3 EXCEPT !.processing_callback = NONE]
          /\ pathname' = "/" /\ query' = NoQuery
          /\ isLoading' = FALSE
          /\ last' = [rec EXCEPT !.op = "handleCallback.done", !.ret = data.access_token]
          /\ UNCHANGED <<error, href, timer, failedCodes>>

\* the exchange answered non-2xx with errorData.message = m
ExchangeFail(r, m) ==
  /\ Mounted
  /\ r \in net /\ r.op = "exchange"
  /\ net' = net \ {r}
  /\ UNCHANGED <<mounts, strict, subtleOk, env, now, loads, call, loggedOut, logins, trig, exchCount>>
  /\ failedCodes' = failedCodes \cup {r.code}
  /\ CallbackFail(ExchangeErrorMessage(m),
                  [NoLast EXCEPT !.op = "handleCallback.exchangeFailed",
                                 !.state = r.state,
                                 !.wasAuth = isAuthenticated, !.wasLoading = isLoading])

\* ------------------------------------------------------------------ refresh answers
\* a result that always carries the submitted refresh token
RefreshedTokens_KeepsOld(data, refreshToken) ==
  [access_token |-> data.access_token, id_token |-> data.id_token,
   refresh_token |-> refreshToken]

\* refreshAccessToken's result for body data and the submitted refresh token
RefreshedTokens(data, refreshToken) ==
  [access_token |-> data.access_token, id_token |-> data.id_token,
   refresh_token |-> Or(data.refresh_token, refreshToken)]

\* startup refresh answered 2xx: rest of checkExistingAuth
StartRefreshOk(r, data) ==
  LET refreshedTokens == RefreshedTokens(data, r.rt)
      storedUser == r.user
  IN
  /\ Mounted
  /\ r \in net /\ r.op = "refresh" /\ r.owner = "start"
  /\ net' = net \ {r}
  /\ storage' = StoreTokenResult(storage, refreshedTokens)
  /\ accessToken' = refreshedTokens.access_token
  /\ idToken' = refreshedTokens.id_token
  /\ user' = IF storedUser # NoJSON THEN JSONparse(storedUser) ELSE NullUser
  /\ isAuthenticated' = TRUE
  /\ isLoading' = FALSE
  /\ last' = [NoLast EXCEPT !.op = "checkExistingAuth.refreshed", !.rt = r.rt,
                            !.resp = data, !.ret = refreshedTokens.access_token,
                            !.wasAuth = isAuthenticated, !.wasLoading = isLoading]
  /\ UNCHANGED <<error, pathname, query, href, timer, mounts, strict, subtleOk, env, now,
                 loads, call, loggedOut, logins, trig, exchCount, failedCodes>>

\* a startup refresh failure that skips the finally block
StartRefreshFail_NoFinally(r) ==
  /\ Mounted
  /\ r \in net /\ r.op = "refresh" /\ r.owner = "start"
  /\ net' = net \ {r}
  /\ storage' = EmptyStorage
  /\ last' = [NoLast EXCEPT !.op = "checkExistingAuth.refreshFailed", !.rt = r.rt,
                            !.wasAuth = isAuthenticated, !.wasLoading = isLoading]
  /\ UNCHANGED <<user, accessToken, idToken, isAuthenticated, isLoading, error, pathname,
                 query, href, timer, mounts, strict, subtleOk, env, now, loads, call,
                 loggedOut, logins, trig, exchCount, failedCodes>>

\* startup refresh failed: inner catch of checkExistingAuth
StartRefreshFail(r) ==
  /\ Mounted
  /\ r \in net /\ r.op = "refresh" /\ r.owner = "start"
  /\ net' = net \ {r}
  /\ storage' = EmptyStorage
  /\ isLoading' = FALSE
  /\ last' = [NoLast EXCEPT !.op = "checkExistingAuth.refreshFailed", !.rt = r.rt,
                            !.wasAuth = isAuthenticated, !.wasLoading = isLoading]
  /\ UNCHANGED <<user, accessToken, idToken, isAuthenticated, error, pathname, query,
                 href, timer, mounts, strict, subtleOk, env, now, loads, call, loggedOut, logins, trig,
                 exchCount, failedCodes>>

\* ------------------------------------------------------------------ getToken
\* executeQuery, the caller of getToken, resumes in the same task in which
\* getToken returns token: the bearer token of the query request it sends
\* (NONE: it sets its error and sends no request), with sessionStorage st
executeQueryBearer(st, token) == Or(st.id_token, token)

\* the free slots for one more suspended getToken call, of n slots
FreeGetIds(n) == {i \in 1..n : ~\E r \in net : r.owner = "get" /\ r.id = i}

\* getToken that refreshes without looking at the expiry
getToken_NoExpiryCheck(n) ==
  LET rec == [NoLast EXCEPT !.op = "getToken", !.wasAuth = isAuthenticated,
                            !.wasLoading = isLoading]
      storedRefreshToken == storage.refresh_token
  IN
  /\ Mounted
  /\ UNCHANGED <<reactVars, storage, pathname, query, href, timer, mounts, strict,
                 subtleOk, env, now, loads, call, loggedOut, logins, trig, exchCount, failedCodes>>
  /\ IF Truthy(accessToken) /\ Truthy(storedRefreshToken)
     THEN /\ FreeGetIds(n) # {}
          /\ net' = net \cup {[op |-> "refresh", owner |-> "get",
                               id |-> CHOOSE i \in FreeGetIds(n) : TRUE,
                               code |-> NONE, cv |-> NONE, state |-> NONE,
                               rt |-> storedRefreshToken, user |-> NoJSON]}
          /\ last' = [rec EXCEPT !.op = "getToken.refreshing", !.sent = TRUE,
                                 !.rt = storedRefreshToken]
     ELSE /\ last' = [rec EXCEPT !.op = "getToken.null"]
          /\ UNCHANGED net

\* getToken up to its first await (or to its return); at most n calls are
\* suspended at their refresh at once
getToken(n) ==
  LET rec == [NoLast EXCEPT !.op = "getToken", !.wasAuth = isAuthenticated,
                            !.wasLoading = isLoading]
      storedRefreshToken == storage.refresh_token
  IN
  /\ Mounted
  /\ UNCHANGED <<reactVars, storage, pathname, query, href, timer, mounts, strict,
                 subtleOk, env, env, now, loads, call, loggedOut, logins, trig, exchCount, failedCodes>>
  /\ IF Truthy(accessToken)
     THEN IF ~isTokenExpired(accessToken, now)
          THEN /\ last' = [rec EXCEPT !.op = "getToken.valid", !.ret = accessToken,
                                      !.bearer = executeQueryBearer(storage, accessToken)]
               /\ UNCHANGED net
          ELSE IF Truthy(storedRefreshToken)
          THEN /\ FreeGetIds(n) # {}
               /\ net' = net \cup {[op |-> "refresh", owner |-> "get",
                                    id |-> CHOOSE i \in FreeGetIds(n) : TRUE,
                                    code |-> NONE, cv |-> NONE, state |-> NONE,
                                    rt |-> storedRefreshToken, user |-> NoJSON]}
               /\ last' = [rec EXCEPT !.op = "getToken.refreshing", !.sent = TRUE,
                                      !.rt = storedRefreshToken]
          ELSE /\ last' = [rec EXCEPT !.op = "getToken.null",
                                      !.bearer = executeQueryBearer(storage, NONE)]
               /\ UNCHANGED net
     ELSE /\ last' = [rec EXCEPT !.op = "getToken.null",
                                      !.bearer = executeQueryBearer(storage, NONE)]
          /\ UNCHANGED net

\* the refresh of a getToken call answered 2xx: rest of the try block
GetRefreshOk(r, data) ==
  LET refreshedTokens == RefreshedTokens(data, r.rt) IN
  /\ Mounted
  /\ r \in net /\ r.op = "refresh" /\ r.owner = "get"
  /\ net' = net \ {r}
  /\ storage' = StoreTokenResult(storage, refreshedTokens)
  /\ accessToken' = refreshedTokens.access_token
  /\ idToken' = refreshedTokens.id_token
  /\ last' = [NoLast EXCEPT !.op = "getToken.refreshed", !.rt = r.rt, !.resp = data,
                            !.ret = refreshedTokens.access_token,
                            !.bearer = executeQueryBearer(storage', refreshedTokens.access_token),
                            !.wasAuth = isAuthenticated, !.wasLoading = isLoading]
  /\ UNCHANGED <<user, isAuthenticated, isLoading, error, pathname, query, href, timer,
                 mounts, strict, subtleOk, env, now, loads, call, loggedOut, logins, trig, exchCount, failedCodes>>

\* the refresh of a getToken call failed: the catch block
GetRefreshFail(r) ==
  /\ Mounted
  /\ r \in net /\ r.op = "refresh" /\ r.owner = "get"
  /\ net' = net \ {r}
  /\ storage' = EmptyStorage
  /\ accessToken' = NONE
  /\ idToken' = NONE
  /\ isAuthenticated' = FALSE
  /\ error' = "Session expired. Please log in again."
  /\ last' = [NoLast EXCEPT !.op = "getToken.refreshFailed", !.rt = r.rt, !.ret = NONE,
                            !.bearer = executeQueryBearer(storage', NONE),
                            !.wasAuth = isAuthenticated, !.wasLoading = isLoading]
  /\ UNCHANGED <<user, isLoading, pathname, query, href, timer, mounts, strict,
                 subtleOk, env, env, now, loads, call, loggedOut, logins, trig, exchCount, failedCodes>>

\* ------------------------------------------------------------------ login
\* login() up to the await inside buildAuthorizationUrl: the state is generated
\* and stored, the verifier generated, the challenge computation started
LoginStart(state, nonce, verifier) ==
  /\ Mounted
  /\ subtleOk \/ ~UsesPKCE(getOAuthConfig(env))
  /\ error' = NONE
  /\ storage' = [storage EXCEPT !.oauth_state = state]
  /\ logins' = logins \cup {[state |-> state, nonce |-> nonce, verifier |-> verifier]}
  /\ last' = [NoLast EXCEPT !.op = "login.start", !.saved = state,
                            !.wasAuth = isAuthenticated, !.wasLoading = isLoading]
  /\ UNCHANGED <<user, accessToken, idToken, isAuthenticated, isLoading, pathname,
                 query, href, timer, mounts, strict, subtleOk, env, now, loads, call, loggedOut, net, trig,
                 exchCount, failedCodes>>

\* the challenge is there: store the verifier, navigate to the authorization URL
LoginFinish(l) ==
  /\ Mounted
  /\ l \in logins
  /\ logins' = logins \ {l}
  /\ storage' = IF UsesPKCE(getOAuthConfig(env))
                THEN [storage EXCEPT !.code_verifier = l.verifier]
                ELSE storage
  /\ href' = buildAuthorizationUrl(getOAuthConfig(env), l.state, l.nonce,
                                   generateCodeChallenge(l.verifier))
  /\ last' = [NoLast EXCEPT !.op = "login.done", !.saved = l.state,
                            !.wasAuth = isAuthenticated, !.wasLoading = isLoading]
  /\ UNCHANGED <<reactVars, pathname, query, timer, mounts, strict, subtleOk, env, now,
                 loads, call, loggedOut, net, trig, exchCount, failedCodes>>

\* crypto.subtle is undefined: generateCodeChallenge throws after the state was
\* stored, login's catch sets the error
LoginFail(state) ==
  /\ Mounted
  /\ ~subtleOk /\ UsesPKCE(getOAuthConfig(env))
  /\ error' = "Cannot read properties of undefined (reading 'digest')"
  /\ storage' = [storage EXCEPT !.oauth_state = state]
  /\ last' = [NoLast EXCEPT !.op = "login.failed", !.saved = state,
                            !.wasAuth = isAuthenticated, !.wasLoading = isLoading]
  /\ UNCHANGED <<user, accessToken, idToken, isAuthenticated, isLoading, pathname,
                 query, href, timer, mounts, strict, subtleOk, env, now, loads, call, loggedOut, net, logins,
                 trig, exchCount, failedCodes>>

\* ------------------------------------------------------------------ logout
\* logout without sessionStorage.clear()
logout_KeepsStorage ==
  /\ Mounted
  /\ user' = NullUser
  /\ accessToken' = NONE
  /\ idToken' = NONE
  /\ isAuthenticated' = FALSE
  /\ href' = HomeUrl
  /\ last' = [NoLast EXCEPT !.op = "logout", !.wasAuth = isAuthenticated,
                            !.wasLoading = isLoading]
  /\ loggedOut' = TRUE
  /\ UNCHANGED <<storage, isLoading, error, pathname, query, timer, mounts, strict,
                 subtleOk, env, env, now, loads, call, net, logins, trig, exchCount, failedCodes>>

logout ==
  /\ Mounted
  /\ storage' = EmptyStorage
  /\ user' = NullUser
  /\ accessToken' = NONE
  /\ idToken' = NONE
  /\ isAuthenticated' = FALSE
  /\ href' = HomeUrl
  /\ last' = [NoLast EXCEPT !.op = "logout", !.wasAuth = isAuthenticated,
                            !.wasLoading = isLoading]
  /\ loggedOut' = TRUE
  /\ UNCHANGED <<isLoading, error, pathname, query, timer, mounts, strict, subtleOk,
                 env, now, loads, call, net, logins, trig, exchCount, failedCodes>>

\* ------------------------------------------------------------------ browser
\* the 3 s timer of a failed callback fires: window.location.href = '/'
TimerFire ==
  /\ Mounted
  /\ timer
  /\ timer' = FALSE
  /\ href' = HomeUrl
  /\ UNCHANGED <<reactVars, storage, pathname, query, mounts, strict, subtleOk, env, now,
                 loads, call, loggedOut, net, logins, last, trig, exchCount, failedCodes>>

\* The tab loads a page of the application (a requested navigation completes,
\* the provider redirects back, the user reloads or opens a URL): the old
\* JavaScript context with every suspended call is gone, AuthProvider is
\* constructed anew, sessionStorage stays.
PageLoad(p, q) ==
  /\ Mounted
  /\ loads < MaxLoads
  /\ loads' = loads + 1
  /\ pathname' = p /\ query' = q
  /\ user' = NullUser /\ accessToken' = NONE /\ idToken' = NONE
  /\ isAuthenticated' = FALSE /\ isLoading' = TRUE /\ error' = NONE
  /\ href' = NoUrl /\ timer' = FALSE /\ mounts' = 0
  /\ net' = {} /\ logins' = {}
  /\ trig' = <<>>
  /\ last' = [NoLast EXCEPT !.op = "load"]
  /\ loggedOut' = FALSE
  /\ UNCHANGED <<storage, strict, subtleOk, env, now, call, exchCount, failedCodes>>

\* time passes; the firings of the mount effect of one commit run back to back
Tick ==
  /\ mounts = 0 \/ Mounted
  /\ now < MaxTicks * TickMs
  /\ now' = now + TickMs
  /\ UNCHANGED <<reactVars, storage, pathname, query, href, timer, mounts, strict,
                 subtleOk, env, loads, call, loggedOut, net, logins, last, trig, exchCount, failedCodes>>

\* ------------------------------------------------------------------ specification
Next ==
  \/ MountEffect
  \/ \E r \in net, data \in TokenResponses : ExchangeOk(r, data)
  \/ \E r \in net, m \in ErrorMessages : ExchangeFail(r, m)
  \/ \E r \in net, data \in TokenResponses : StartRefreshOk(r, data)
  \/ \E r \in net : StartRefreshFail(r)
  \/ getToken(MaxGets)
  \/ \E r \in net, data \in TokenResponses : GetRefreshOk(r, data)
  \/ \E r \in net : GetRefreshFail(r)
  \/ /\ Cardinality(logins) < MaxLogins
     /\ \E state \in GeneratedStates, nonce \in Nonces, verifier \in Verifiers :
          LoginStart(state, nonce, verifier)
  \/ \E l \in logins : LoginFinish(l)
  \/ \E state \in GeneratedStates : LoginFail(state)
  \/ logout
  \/ TimerFire
  \/ PageLoad("/", NoQuery)
  \/ \E q \in CallbackQueries : PageLoad("/callback", q)
  \/ Tick

Spec == Init /\ [][Next]_vars

\* ------------------------------------------------------------------ progress
\* a request in flight is answered
Answer ==
  \E r \in net :
    \/ \E data \in TokenResponses : ExchangeOk(r, data)
    \/ \E m \in ErrorMessages : ExchangeFail(r, m)
    \/ \E data \in TokenResponses : StartRefreshOk(r, data)
    \/ StartRefreshFail(r)

\* starting a page, logging in and out, and the answers to the start's requests
NextFair ==
  \/ MountEffect
  \/ Answer
  \/ /\ Cardinality(logins) < MaxLogins
     /\ \E state \in GeneratedStates, nonce \in Nonces, verifier \in Verifiers :
          LoginStart(state, nonce, verifier)
  \/ \E l \in logins : LoginFinish(l)
  \/ \E state \in GeneratedStates : LoginFail(state)
  \/ logout
  \/ PageLoad("/", NoQuery)
  \/ \E q \in CallbackQueries : PageLoad("/callback", q)
  \/ Tick

\* React runs the mount effect of a committed page, and every network call
\* is answered
SpecFair == Init /\ [][NextFair]_vars /\ WF_vars(MountEffect) /\ WF_vars(Answer)

\* ------------------------------------------------------------------ login under every build
\* a fresh tab in a build with any of the settings
InitUrl == (\E e \in Envs : InitEnv(e)) /\ call = NoCall

\* starting and login only
NextUrl ==
  \/ MountEffect
  \/ /\ Cardinality(logins) < MaxLogins
     /\ \E state \in GeneratedStates, nonce \in Nonces, verifier \in Verifiers :
          LoginStart(state, nonce, verifier)
  \/ \E l \in logins : LoginFinish(l)
  \/ \E state \in GeneratedStates : LoginFail(state)
  \/ PageLoad("/", NoQuery)

SpecUrl == InitUrl /\ [][NextUrl]_vars

\* ------------------------------------------------------------------ overlapping logins
\* starting and login, with up to MaxOverlap login() calls suspended at once
\* and generateRandomString drawing from more than one value
NextLogin ==
  \/ MountEffect
  \/ /\ Cardinality(logins) < MaxOverlap
     /\ \E state \in States, nonce \in Nonces, verifier \in LoginVerifiers :
          LoginStart(state, nonce, verifier)
  \/ \E l \in logins : LoginFinish(l)
  \/ \E state \in States : LoginFail(state)
  \/ PageLoad("/", NoQuery)

SpecLogin == Init /\ [][NextLogin]_vars

\* ------------------------------------------------------------------ overlapping getToken calls
\* the callback of the login with the generated state
LoginCallback == [NoQuery EXCEPT !.code = "c1", !.state = "s1"]

\* the token set of the session: an access token with exp 10 s, a refresh token
SessionTokens ==
  {[access_token |-> "h.exp10.s", id_token |-> "h.id.s", refresh_token |-> "r1"]}

\* the answers to a refresh: an opaque access token, the refresh token rotated or not
RefreshAnswers ==
  {[access_token |-> OpaqueAT, id_token |-> NONE, refresh_token |-> rt] :
     rt \in {NONE, "r2"}}

\* one login, its callback, and then getToken with up to MaxOverlap calls
\* suspended at their refresh at once
NextRefresh ==
  \/ MountEffect
  \/ /\ Cardinality(logins) < MaxLogins
     /\ \E state \in GeneratedStates, nonce \in Nonces, verifier \in Verifiers :
          LoginStart(state, nonce, verifier)
  \/ \E l \in logins : LoginFinish(l)
  \/ PageLoad("/callback", LoginCallback)
  \/ \E r \in net, data \in SessionTokens : ExchangeOk(r, data)
  \/ Tick
  \/ getToken(MaxOverlap)
  \/ \E r \in net, data \in RefreshAnswers : GetRefreshOk(r, data)
  \/ \E r \in net : GetRefreshFail(r)

SpecRefresh == Init /\ [][NextRefresh]_vars

\* ------------------------------------------------------------------ helper calls
\* everything but the helper call under examination
appVars == <<user, accessToken, idToken, isAuthenticated, isLoading, error,
             storage, pathname, query, href, timer, mounts, strict, subtleOk, env, now,
             loads, loggedOut, net, logins, last, trig, exchCount, failedCodes>>

\* what sessionStorage.getItem('oauth_state') and the state parameter of a
\* callback URL can be: absent, empty, or strings that differ in case or blanks
StateStrings == {NONE, "", "s1", "S1", " s1", "s2"}

VerifyStateCalls ==
  [fn : {"verifyState"}, saved : StateStrings, received : StateStrings,
   done : {FALSE}, out : {FALSE}]

\* verifyState(received) with saved under oauth_state
CallVerifyState ==
  /\ call.fn = "verifyState" /\ ~call.done
  /\ call' = [call EXCEPT !.done = TRUE,
                          !.out = verifyState([EmptyStorage EXCEPT !.oauth_state = call.saved],
                                              call.received)]
  /\ UNCHANGED appVars

\* the strings isTokenExpired is given: empty, opaque, three segments that do
\* not decode, a token without exp, a token with exp 10 s, and two segments of
\* which the second decodes
ExpiryTokens == {"", OpaqueAT, "h.garbage.s", "h.id.s", "h.exp10.s", "x.exp10"}

\* Date.now() at the call, around exp (10000 ms) and exp minus 5000 ms
ExpiryTimes == {0, 4999, 5000, 5001, 9999, 10000, 10001}

IsTokenExpiredCalls ==
  [fn : {"isTokenExpired"}, token : ExpiryTokens, now : ExpiryTimes,
   done : {FALSE}, out : {FALSE}]

\* isTokenExpired(token) at Date.now() = call.now
CallIsTokenExpired ==
  /\ call.fn = "isTokenExpired" /\ ~call.done
  /\ call' = [call EXCEPT !.done = TRUE, !.out = isTokenExpired(call.token, call.now)]
  /\ UNCHANGED appVars

\* ---- extractUserInfo
\* the claims a payload can carry, and whether a payload has a claim as an
\* own property (an empty string is one)
ClaimKeys == {"sub", "email", "name", "preferred_username", "picture", "exp"}
HasClaim(decoded, k) == IF k = "exp" THEN decoded.exp # 0 ELSE decoded[k] # NONE

NullInfo == [nil |-> TRUE, sub |-> NONE, email |-> NONE, name |-> NONE,
             picture |-> NONE, preferred_username |-> NONE, exp |-> 0]

\* extractUserInfo(idToken, accessToken): the four computed members, then the
\* spread of the decoded payload over them
extractUserInfo(idToken_, accessToken_) ==
  LET token == Or(idToken_, accessToken_)
      decoded == decodeJWT(token)
      computed == [NullInfo EXCEPT
                     !.nil = FALSE,
                     !.sub = decoded.sub,
                     !.email = decoded.email,
                     !.name = Or(decoded.name, Or(decoded.preferred_username, decoded.email)),
                     !.picture = decoded.picture]
  IN IF ~Truthy(token) THEN NullInfo
     ELSE IF ~decoded.ok THEN NullInfo
     ELSE [k \in DOMAIN computed |->
             IF k \in ClaimKeys /\ HasClaim(decoded, k) THEN decoded[k] ELSE computed[k]]

ExtractUserInfoCalls ==
  [fn : {"extractUserInfo"},
   idToken : {NONE, "", "h.garbage.s", "h.id.s", "h.named.s", "h.emptyname.s"},
   accessToken : {NONE, OpaqueAT, "h.exp10.s"},
   done : {FALSE}, out : {NullInfo}]

CallExtractUserInfo ==
  /\ call.fn = "extractUserInfo" /\ ~call.done
  /\ call' = [call EXCEPT !.done = TRUE,
                          !.out = extractUserInfo(call.idToken, call.accessToken)]
  /\ UNCHANGED appVars

\* ---- a failed code exchange, from the provider to the caller
\* what the token endpoint of the provider answers a failed exchange with
ProviderStatuses == {"400", "401", "500"}
ProviderErrorBodies == {"", "{error:invalid_grant}", "upstream unavailable"}

\* POST /api/oauth/token, !tokenResponse.ok: the answer of the intermediary
tokenExchangeFailed(status, errorText) ==
  [status |-> status,
   error |-> "Token Exchange Failed",
   message |-> "Failed to exchange authorization code for tokens",
   details |-> errorText]

ExchangeFailureCalls ==
  [fn : {"exchangeCodeForTokens"}, status : ProviderStatuses,
   body : ProviderErrorBodies, done : {FALSE}, out : {NONE}]

\* exchangeCodeForTokens against an intermediary whose provider answers
\* call.status with call.body: the message of the Error it throws
CallExchangeFailure ==
  /\ call.fn = "exchangeCodeForTokens" /\ ~call.done
  /\ LET errorData == tokenExchangeFailed(call.status, call.body) IN
     call' = [call EXCEPT !.done = TRUE,
                          !.out = Or(errorData.message,
                                     "Token exchange failed: " \o errorData.status)]
  /\ UNCHANGED appVars

\* ---- POST /api/query
\* req.headers.authorization
AuthHeaders == {NONE, "", "Basic abc", "bearer tok", "Bearer", "Bearer ", "Bearer tok"}

\* String.prototype.startsWith('Bearer ')
StartsWithBearer(authHeader) == authHeader \in {"Bearer ", "Bearer tok"}

\* req.body.query: its typeof, its truthiness and its length
QueryValues ==
  {[type |-> "undefined", truthy |-> FALSE, length |-> 0],
   [type |-> "object", truthy |-> FALSE, length |-> 0],
   [type |-> "object", truthy |-> TRUE, length |-> 1],
   [type |-> "number", truthy |-> TRUE, length |-> 0],
   [type |-> "string", truthy |-> FALSE, length |-> 0],
   [type |-> "string", truthy |-> TRUE, length |-> 1],
   [type |-> "string", truthy |-> TRUE, length |-> 10000],
   [type |-> "string", truthy |-> TRUE, length |-> 10001]}

\* what the engine does with a query: rows, or an Error with this message
EngineRows == "<rows>"
EngineErrorMessages ==
  {NONE, "Request failed with status code 401", "Unauthorized",
   "Request failed with status code 403", "Access Denied: Forbidden",
   "unauthorized", "line 1:8: Column x cannot be resolved",
   "401 after 403 Forbidden"}
EngineOutcomes == {EngineRows} \cup EngineErrorMessages

\* error.message?.includes(needle)
Includes(message, needle) ==
  CASE needle = "401" -> message \in {"Request failed with status code 401",
                                      "401 after 403 Forbidden"}
    [] needle = "Unauthorized" -> message = "Unauthorized"
    [] needle = "403" -> message \in {"Request failed with status code 403",
                                      "401 after 403 Forbidden"}
    [] needle = "Forbidden" -> message \in {"Access Denied: Forbidden",
                                            "401 after 403 Forbidden"}
    [] OTHER -> FALSE

\* the catch block of POST /api/query
queryErrorStatus(message) ==
  IF Includes(message, "401") \/ Includes(message, "Unauthorized") THEN 401
  ELSE IF Includes(message, "403") \/ Includes(message, "Forbidden") THEN 403
  ELSE 500

\* POST /api/query without the length limit
queryEndpoint_NoLengthLimit(authHeader, q, engine) ==
  IF ~Truthy(authHeader) \/ ~StartsWithBearer(authHeader)
  THEN [status |-> 401, contacted |-> FALSE]
  ELSE IF ~q.truthy \/ q.type # "string"
  THEN [status |-> 400, contacted |-> FALSE]
  ELSE IF engine = EngineRows
  THEN [status |-> 200, contacted |-> TRUE]
  ELSE [status |-> queryErrorStatus(engine), contacted |-> TRUE]

\* POST /api/query: the status answered, and whether client.query was called
queryEndpoint(authHeader, q, engine) ==
  IF ~Truthy(authHeader) \/ ~StartsWithBearer(authHeader)
  THEN [status |-> 401, contacted |-> FALSE]
  ELSE IF ~q.truthy \/ q.type # "string"
  THEN [status |-> 400, contacted |-> FALSE]
  ELSE IF q.length > 10000
  THEN [status |-> 400, contacted |-> FALSE]
  ELSE IF engine = EngineRows
  THEN [status |-> 200, contacted |-> TRUE]
  ELSE [status |-> queryErrorStatus(engine), contacted |-> TRUE]

QueryCalls ==
  [fn : {"query"}, authHeader : AuthHeaders, query : QueryValues,
   engine : EngineOutcomes, done : {FALSE},
   out : {[status |-> 0, contacted |-> FALSE]}]

CallQuery ==
  /\ call.fn = "query" /\ ~call.done
  /\ call' = [call EXCEPT !.done = TRUE,
                          !.out = queryEndpoint(call.authHeader, call.query, call.engine)]
  /\ UNCHANGED appVars

\* ---- POST /api/oauth/token and POST /api/oauth/refresh
\* getOAuthConfig().clientId: OAUTH2_PUBLIC_CLIENT_ID || 'query-app'
BackendClientIds == {NONE, "trino-public"}
oauthClientId(configured) == Or(configured, "query-app")

\* a value placed in URLSearchParams: undefined becomes the text "undefined"
FormValue(v) == IF v = NONE THEN UndefStr ELSE v

\* req.body fields
BodyCodes == {NONE, "", "c1"}
BodyVerifiers == {NONE, "", "v1"}
BodyRedirectUris == {NONE, "http://localhost:5173/callback"}
BodyRefreshTokens == {NONE, "", "rt1"}

\* what fetch(tokenUrl) comes to: an ok answer, a status that is not ok, or a
\* rejection
ProviderOk == "200"
ProviderThrows == "throws"
ProviderOutcomes == {ProviderOk, ProviderThrows} \cup ProviderStatuses

NotContacted(status) == [status |-> status, contacted |-> FALSE, params |-> {}]

\* the status the endpoint answers after its fetch
relayStatus(provider) ==
  IF provider = ProviderThrows THEN "500" ELSE provider

\* POST /api/oauth/token with code_verifier appended unconditionally
tokenEndpoint_AlwaysVerifier(code, codeVerifier, redirectUri, clientId, provider) ==
  IF ~Truthy(code) THEN NotContacted("400")
  ELSE LET tokenParams ==
             {<<"grant_type", "authorization_code">>,
              <<"code", code>>,
              <<"redirect_uri", FormValue(redirectUri)>>,
              <<"client_id", oauthClientId(clientId)>>,
              <<"code_verifier", FormValue(codeVerifier)>>}
       IN [status |-> relayStatus(provider), contacted |-> TRUE, params |-> tokenParams]

\* POST /api/oauth/token: the status answered, whether the provider was
\* contacted, and the form parameters sent to it
tokenEndpoint(code, codeVerifier, redirectUri, clientId, provider) ==
  IF ~Truthy(code) THEN NotContacted("400")
  ELSE LET tokenParams ==
             {<<"grant_type", "authorization_code">>,
              <<"code", code>>,
              <<"redirect_uri", FormValue(redirectUri)>>,
              <<"client_id", oauthClientId(clientId)>>}
             \cup (IF Truthy(codeVerifier)
                   THEN {<<"code_verifier", codeVerifier>>} ELSE {})
       IN [status |-> relayStatus(provider), contacted |-> TRUE, params |-> tokenParams]

\* POST /api/oauth/refresh
refreshEndpoint(refreshToken, clientId, provider) ==
  IF ~Truthy(refreshToken) THEN NotContacted("400")
  ELSE LET tokenParams ==
             {<<"grant_type", "refresh_token">>,
              <<"refresh_token", refreshToken>>,
              <<"client_id", oauthClientId(clientId)>>}
       IN [status |-> relayStatus(provider), contacted |-> TRUE, params |-> tokenParams]

TokenEndpointCalls ==
  [fn : {"oauthToken"}, code : BodyCodes, codeVerifier : BodyVerifiers,
   redirectUri : BodyRedirectUris, clientId : BackendClientIds,
   provider : ProviderOutcomes, done : {FALSE}, out : {NotContacted("0")}]

RefreshEndpointCalls ==
  [fn : {"oauthRefresh"}, refreshToken : BodyRefreshTokens, clientId : BackendClientIds,
   provider : ProviderOutcomes, done : {FALSE}, out : {NotContacted("0")}]

CallTokenEndpoint ==
  /\ call.fn = "oauthToken" /\ ~call.done
  /\ call' = [call EXCEPT !.done = TRUE,
                          !.out = tokenEndpoint(call.code, call.codeVerifier,
                                                call.redirectUri, call.clientId,
                                                call.provider)]
  /\ UNCHANGED appVars

CallRefreshEndpoint ==
  /\ call.fn = "oauthRefresh" /\ ~call.done
  /\ call' = [call EXCEPT !.done = TRUE,
                          !.out = refreshEndpoint(call.refreshToken, call.clientId,
                                                  call.provider)]
  /\ UNCHANGED appVars

\* ---- the helper calls, each from its arguments to its return
InitHelpers ==
  /\ InitEnv(DeployedEnv)
  /\ \/ call \in VerifyStateCalls
     \/ call \in IsTokenExpiredCalls
     \/ call \in ExtractUserInfoCalls
     \/ call \in ExchangeFailureCalls
     \/ call \in QueryCalls
     \/ call \in TokenEndpointCalls
     \/ call \in RefreshEndpointCalls

NextHelpers ==
  \/ CallVerifyState
  \/ CallIsTokenExpired
  \/ CallExtractUserInfo
  \/ CallExchangeFailure
  \/ CallQuery
  \/ CallTokenEndpoint
  \/ CallRefreshEndpoint

SpecHelpers == InitHelpers /\ [][NextHelpers]_vars


\* ================================================================== claims

\* exchange requests in flight
ExchangesInFlight == {r \in net : r.op = "exchange"}

\* C1: when the mount effect has fired twice on one callback page, the second
\* firing sent no exchange request; the only exchange of the page is the one
\* the first firing sent, so a code whose exchange is in flight when the second
\* firing comes is exchanged exactly once.
C1_SecondTriggerNoExchange ==
  Len(trig) = 2 =>
    /\ ~trig[2]
    /\ Cardinality(ExchangesInFlight) <= 1
    /\ \A r \in ExchangesInFlight : r.id = 1
    /\ (trig[1] => Cardinality({i \in 1..2 : trig[i]}) = 1)

\* the second firing came while the exchange of the first was in flight
C1_Witness ==
  /\ Len(trig) = 2 /\ trig[1] /\ ~trig[2]
  /\ pathname = "/callback" /\ Truthy(query.code)
  /\ last.op = "mount.skip"
  /\ Cardinality(ExchangesInFlight) = 1

\* C2 (as claimed): handleCallback sends an exchange request only when the
\* callback carries a state and that state equals the persisted one; otherwise
\* nothing is sent, the persisted state and verifier are cleared and an error
\* is set.
C2_ExchangeOnlyOnMatchingState ==
  last.op = "handleCallback" =>
    IF Truthy(query.state) /\ query.state = last.saved
    THEN TRUE
    ELSE /\ ~last.sent
         /\ storage.oauth_state = NONE /\ storage.code_verifier = NONE
         /\ Truthy(error)

\* C3: a non-success answer to the exchange of handleCallback leaves the
\* session unauthenticated, session storage empty and an error message set.
C3_ExchangeFailureClears ==
  last.op = "handleCallback.exchangeFailed" =>
    /\ ~isAuthenticated
    /\ storage = EmptyStorage
    /\ Truthy(error)
    /\ ~isLoading

C3_Witness ==
  /\ last.op = "handleCallback.exchangeFailed"
  /\ storage = EmptyStorage /\ Truthy(error) /\ ~isAuthenticated

\* C4 (as claimed): a callback URL that carries an error parameter never leads
\* to an exchange request, and the error shown is error_description when that
\* parameter is present, the error value otherwise.
C4_ErrorParamAuthoritative ==
  (last.op = "handleCallback" /\ query.error # NONE) =>
    /\ ~last.sent
    /\ error = (IF query.errorDescription # NONE THEN query.errorDescription
                ELSE query.error)

\* C4 (amended): a callback URL that carries a non-empty error parameter never
\* leads to an exchange request, also with a code and a matching state next to
\* it, and the error shown is error_description when that is present and
\* non-empty, the error value otherwise.
C4_NonEmptyErrorAuthoritative ==
  (last.op = "handleCallback" /\ Truthy(query.error)) =>
    /\ ~last.sent
    /\ ExchangesInFlight = {}
    /\ error = (IF Truthy(query.errorDescription) THEN query.errorDescription
                ELSE query.error)

\* an error callback that also carried a code and the persisted state
C4_Witness ==
  /\ last.op = "handleCallback" /\ Truthy(query.error)
  /\ Truthy(query.code) /\ Truthy(query.state) /\ query.state = last.saved
  /\ ~last.sent /\ error = query.error

\* C5: a callback URL with neither a code nor an error is aborted like a CSRF
\* failure: no exchange request, session storage empty, unauthenticated, an
\* error message set.
C5_MalformedCallbackAborts ==
  (last.op = "handleCallback" /\ query.code = NONE /\ query.error = NONE) =>
    /\ ~last.sent
    /\ ExchangesInFlight = {}
    /\ storage = EmptyStorage
    /\ ~isAuthenticated
    /\ Truthy(error)

\* a callback with no code, no error and the persisted state
C5_Witness ==
  /\ last.op = "handleCallback" /\ query.code = NONE /\ query.error = NONE
  /\ Truthy(last.saved) /\ query.state = last.saved
  /\ error = "No authorization code received"
  /\ storage = EmptyStorage

\* C6 (as claimed): whenever isAuthenticated is true the access token is
\* present and non-empty in the controller state and in session storage.
C6_AuthenticatedHasToken ==
  isAuthenticated =>
    /\ Truthy(accessToken)
    /\ Truthy(storage.access_token)
    /\ storage.access_token # UndefStr

\* C7: a getToken refresh that is answered with a token set returns the new
\* access token, session storage holds the new access token, and the stored
\* refresh token is the answered one when there is one and the submitted (old)
\* one otherwise.
C7_RefreshSuccess ==
  (last.op = "getToken.refreshed" /\ Truthy(last.resp.access_token)) =>
    /\ last.ret = last.resp.access_token
    /\ accessToken = last.resp.access_token
    /\ storage.access_token = last.resp.access_token
    /\ storage.refresh_token = (IF Truthy(last.resp.refresh_token)
                                THEN last.resp.refresh_token ELSE last.rt)

\* a refresh that rotated the refresh token
C7_Witness ==
  /\ last.op = "getToken.refreshed" /\ Truthy(last.resp.access_token)
  /\ Truthy(last.resp.refresh_token) /\ last.resp.refresh_token # last.rt
  /\ storage.refresh_token = last.resp.refresh_token
  /\ last.ret = storage.access_token

\* C8 (as claimed): a failed getToken refresh returns null and leaves session
\* storage empty, access token, id token and user absent from the controller
\* state and isAuthenticated false.
C8_RefreshFailureClearsAll ==
  last.op = "getToken.refreshFailed" =>
    /\ last.ret = NONE
    /\ storage = EmptyStorage
    /\ accessToken = NONE /\ idToken = NONE /\ user = NullUser
    /\ ~isAuthenticated

\* C9 (as claimed): no two of isLoading, isAuthenticated and error are set at
\* once.
C9_ExactlyOneSessionState ==
  /\ ~(isLoading /\ isAuthenticated)
  /\ ~(isLoading /\ error # NONE)
  /\ ~(isAuthenticated /\ error # NONE)

\* C10: logout can always run, and it leaves session storage empty, user,
\* access token and id token absent and isAuthenticated false.
C10_LogoutClears ==
  /\ Mounted => ENABLED logout
  /\ last.op = "logout" =>
       /\ storage = EmptyStorage
       /\ user = NullUser /\ accessToken = NONE /\ idToken = NONE
       /\ ~isAuthenticated

\* a logout of an authenticated session
C10_Witness ==
  /\ last.op = "logout" /\ last.wasAuth
  /\ storage = EmptyStorage /\ ~isAuthenticated /\ user = NullUser

\* refresh requests of checkExistingAuth in flight
StartRefreshesInFlight == {r \in net : r.op = "refresh" /\ r.owner = "start"}

\* C11 (as claimed): on a start outside the callback page, a stored unexpired
\* access token gives an authenticated session without a request; an expired
\* one with a stored refresh token gives exactly one refresh request, an
\* authenticated session when it succeeds and an unauthenticated one with
\* empty session storage when it fails; every other start gives an
\* unauthenticated session.
C11_StartupRehydration ==
  /\ Cardinality(StartRefreshesInFlight) <= 1
  /\ (last.op = "checkExistingAuth" /\ last.ret # NONE) =>
       (isAuthenticated /\ ~last.sent /\ accessToken = last.ret)
  /\ last.op = "checkExistingAuth.refreshed" => isAuthenticated
  /\ last.op = "checkExistingAuth.refreshFailed" =>
       (~isAuthenticated /\ storage = EmptyStorage)
  /\ (last.op = "checkExistingAuth" /\ last.ret = NONE /\ ~last.sent) =>
       ~isAuthenticated

\* the runs of handleCallback that end the handling of a callback
CallbackConsumed ==
  \/ last.op = "handleCallback" /\ ~last.sent
  \/ last.op \in {"handleCallback.done", "handleCallback.failed",
                  "handleCallback.exchangeFailed"}

\* C12 (as claimed): once handleCallback has consumed a callback, with or
\* without success, session storage holds no code verifier and no longer the
\* state value that callback carried, so that value cannot pass verification
\* again.
C12_StateSingleUse ==
  CallbackConsumed =>
    /\ storage.code_verifier = NONE
    /\ Truthy(last.state) => storage.oauth_state # last.state

\* C13 (as claimed): no getToken call returns a result, a token or null, while
\* an exchange of handleCallback is in flight.
C13_TokenReadsSerialized ==
  last.op \in {"getToken.valid", "getToken.null", "getToken.refreshed",
               "getToken.refreshFailed"} => ExchangesInFlight = {}

\* C14 (as claimed): once the exchange for an authorization code has failed, no
\* step sends another exchange request for that code.
C14_NoRetryAfterFailure ==
  [][\A c \in failedCodes : exchCount'[c] = exchCount[c]]_vars

\* the runs in which a failure is handled
FailureHandled ==
  \/ last.op = "handleCallback" /\ ~last.sent
  \/ last.op \in {"handleCallback.failed", "handleCallback.exchangeFailed",
                  "checkExistingAuth.refreshFailed", "getToken.refreshFailed"}

\* C15 (as claimed): every handled failure (state mismatch, provider error,
\* failed exchange, failed refresh at startup or in getToken, malformed
\* callback) leaves a non-empty error, empty session storage and
\* isAuthenticated false.
C15_FailuresSetError ==
  FailureHandled =>
    /\ Truthy(error)
    /\ storage = EmptyStorage
    /\ ~isAuthenticated

\* C16 (as claimed): whenever the access token is absent from the controller
\* state, user is null.
C16_UserOnlyWithTokens ==
  ~Truthy(accessToken) => user = NullUser

\* C17 (as claimed): after a refresh answered with a token set, session storage
\* holds exactly the answered access token and id token (none when none was
\* answered) and the answered refresh token, or the submitted one when none was
\* answered.
C17_RefreshReplacesWholesale ==
  (last.op \in {"getToken.refreshed", "checkExistingAuth.refreshed"}
     /\ Truthy(last.resp.access_token)) =>
    /\ storage.access_token = last.resp.access_token
    /\ storage.id_token = last.resp.id_token
    /\ storage.refresh_token = Or(last.resp.refresh_token, last.rt)

\* the outcomes of getToken's first synchronous run
GetTokenFirstRun == {"getToken.valid", "getToken.refreshing", "getToken.null"}

\* C18: a getToken call made while the access token of the controller state is
\* unexpired returns exactly that token, sends no refresh request and changes
\* neither session storage nor the session state.
C18_ValidTokenNoEffects ==
  [][(/\ last' # last /\ last'.op \in GetTokenFirstRun
      /\ Truthy(accessToken) /\ ~isTokenExpired(accessToken, now))
     => (/\ last'.op = "getToken.valid"
         /\ last'.ret = accessToken
         /\ ~last'.sent
         /\ net' = net
         /\ storage' = storage
         /\ UNCHANGED reactVars)]_vars

\* getToken returned the unexpired token although a refresh token was stored
C18_Witness ==
  /\ last.op = "getToken.valid" /\ last.ret = accessToken
  /\ Truthy(accessToken) /\ ~isTokenExpired(accessToken, now)
  /\ Truthy(storage.refresh_token)
  /\ net = {}

\* C19: no token delivered in a URL fragment ever becomes the access token of
\* the controller state or of session storage, and a callback page whose
\* fragment carries a token and whose query string carries no code is never
\* authenticated and never sends an exchange request.
C19_NoFragmentAuthentication ==
  /\ accessToken \notin FragmentTokens
  /\ storage.access_token \notin FragmentTokens
  /\ (pathname = "/callback" /\ query.hashToken # NONE /\ query.code = NONE) =>
       (~isAuthenticated /\ ExchangesInFlight = {})

\* handleCallback has run on a callback with a fragment token and no code
C19_Witness ==
  /\ last.op = "handleCallback" /\ pathname = "/callback"
  /\ query.hashToken \in FragmentTokens /\ query.code = NONE /\ query.error = NONE
  /\ error = "No authorization code received"
  /\ ~isAuthenticated /\ storage = EmptyStorage

\* URLSearchParams of a URL: the keys, and the value of a key
ParamKeys(url) == {url.params[i][1] : i \in DOMAIN url.params}
ParamValue(url, k) ==
  url.params[CHOOSE i \in DOMAIN url.params : url.params[i][1] = k][2]

\* login() has requested the navigation to the authorization URL
AuthorizationUrlRequested == href # NoUrl /\ href # HomeUrl

\* C20: in every build, the URL login() navigates to has exactly the query
\* parameters client_id, redirect_uri, response_type, scope, state, nonce,
\* code_challenge and code_challenge_method, each once, with response_type
\* code and code_challenge_method S256.
C20_AuthorizationUrlParams ==
  AuthorizationUrlRequested =>
    /\ Len(href.params) = 8
    /\ ParamKeys(href) = {"client_id", "redirect_uri", "response_type", "scope",
                          "state", "nonce", "code_challenge",
                          "code_challenge_method"}
    /\ ParamValue(href, "response_type") = "code"
    /\ ParamValue(href, "code_challenge_method") = "S256"

\* a URL built in a build whose client id setting is empty
C20_Witness ==
  /\ AuthorizationUrlRequested /\ last.op = "login.done"
  /\ env.VITE_OAUTH_CLIENT_ID = "" /\ env.VITE_OAUTH_SCOPE = "openid"
  /\ Len(href.params) = 8
  /\ ParamValue(href, "client_id") = "query-app"
  /\ ParamValue(href, "scope") = "openid"
  /\ ParamValue(href, "state") = storage.oauth_state

\* the code_challenge a verifier must give: the unpadded base64url text of
\* its SHA-256 digest
S256Challenge(verifier) ==
  CASE verifier = "v1" -> "a-b_c"
    [] verifier = "v2" -> "-__y-"
    [] OTHER -> "o"

\* C21: the code_challenge of the URL login() navigates to is the unpadded
\* base64url encoding of the SHA-256 digest of the verifier stored under
\* code_verifier.
C21_ChallengeOfStoredVerifier ==
  last.op = "login.done" =>
    /\ storage.code_verifier \in LoginVerifiers
    /\ ParamValue(href, "code_challenge") = S256Challenge(storage.code_verifier)

\* a login finished while another one, with the other verifier, is suspended
C21_Witness ==
  /\ last.op = "login.done" /\ storage.code_verifier = "v2"
  /\ ParamValue(href, "code_challenge") = "-__y-"
  /\ \E l \in logins : l.verifier = "v1"

\* C22: verifyState returns true when the persisted and the received state
\* are the same non-empty string and false when they differ; values that differ
\* only in letter case or blanks differ.
C22_VerifyStateExact ==
  (call.fn = "verifyState" /\ call.done) =>
    /\ (call.saved = call.received /\ Truthy(call.saved)) => call.out
    /\ call.saved # call.received => ~call.out

\* the received state differs from the persisted one in letter case only
C22_Witness ==
  /\ call.fn = "verifyState" /\ call.done
  /\ call.saved = "s1" /\ call.received = "S1" /\ ~call.out

\* the number of dot-separated segments of a string
Segments(token) ==
  CASE token = "" -> 1
    [] token \in {OpaqueAT, "x.exp10"} -> 2
    [] OTHER -> 3

\* C23 (as claimed): isTokenExpired returns false for every string that is
\* not three dot-separated segments, for every token that decodes to claims
\* without exp, and for three segments that do not decode.
C23_UnstructuredNeverExpired ==
  (call.fn = "isTokenExpired" /\ call.done) =>
    ((\/ Segments(call.token) # 3
      \/ ~decodeJWT(call.token).ok
      \/ decodeJWT(call.token).exp = 0) => ~call.out)

\* the exp of the token a helper call was given, in milliseconds
CallExpMs == decodeJWT(call.token).exp * 1000

CallIdentityToken == Or(call.idToken, call.accessToken)
CallIdentityClaims == decodeJWT(CallIdentityToken)

\* C26 (as claimed): extractUserInfo decodes the id token when given, else the
\* access token; it returns null when that token does not decode; otherwise
\* sub, email and picture are the claims, name is the first present of name,
\* preferred_username, email, and the other claims are passed through without
\* overriding the computed name.
C26_DisplayNameNotOverridden ==
  (call.fn = "extractUserInfo" /\ call.done) =>
    IF ~Truthy(CallIdentityToken) \/ ~CallIdentityClaims.ok
    THEN call.out.nil
    ELSE /\ ~call.out.nil
         /\ call.out.sub = CallIdentityClaims.sub
         /\ call.out.email = CallIdentityClaims.email
         /\ call.out.picture = CallIdentityClaims.picture
         /\ call.out.name = Or(CallIdentityClaims.name,
                               Or(CallIdentityClaims.preferred_username,
                                  CallIdentityClaims.email))
         /\ call.out.preferred_username = CallIdentityClaims.preferred_username
         /\ call.out.exp = CallIdentityClaims.exp

\* C27 (as claimed): the failure exchangeCodeForTokens reports for a
\* non-success answer of the provider carries the provider's error body.
C27_RawErrorBodyCarried ==
  (call.fn = "exchangeCodeForTokens" /\ call.done) => call.out = call.body

\* a request POST /api/query lets through to the engine
QueryRequestValid ==
  /\ StartsWithBearer(call.authHeader)
  /\ call.query.type = "string" /\ call.query.length >= 1
  /\ call.query.length <= 10000

\* C29: POST /api/query calls the engine exactly for requests with an
\* Authorization header starting with "Bearer " and a non-empty string query
\* of at most 10000 characters; the others are answered 401 (header) or 400
\* (query); an engine error naming 401 or Unauthorized is answered 401, one
\* naming 403 or Forbidden 403, any other 500.
C29_QueryGate ==
  (call.fn = "query" /\ call.done) =>
    /\ call.out.contacted <=> QueryRequestValid
    /\ ~StartsWithBearer(call.authHeader) => call.out.status = 401
    /\ (StartsWithBearer(call.authHeader) /\ ~QueryRequestValid) => call.out.status = 400
    /\ (QueryRequestValid /\ call.engine # EngineRows) =>
         call.out.status =
           (IF call.engine \in {"Request failed with status code 401", "Unauthorized",
                                "401 after 403 Forbidden"} THEN 401
            ELSE IF call.engine \in {"Request failed with status code 403",
                                     "Access Denied: Forbidden"} THEN 403
            ELSE 500)

\* a query of 10001 characters with a valid header is answered 400 unsent
C29_Witness ==
  /\ call.fn = "query" /\ call.done
  /\ call.authHeader = "Bearer tok" /\ call.query.type = "string"
  /\ call.query.length = 10001
  /\ call.out.status = 400 /\ ~call.out.contacted

\* C28 (as claimed): whenever login() requests the navigation to an
\* authorization URL, sessionStorage holds the state that URL carries and the
\* verifier whose challenge that URL carries, also when two logins overlap.
C28_StorageMatchesUrl ==
  last.op = "login.done" =>
    /\ storage.oauth_state = ParamValue(href, "state")
    /\ generateCodeChallenge(storage.code_verifier) = ParamValue(href, "code_challenge")

\* refresh requests of getToken calls in flight
GetRefreshesInFlight == {r \in net : r.op = "refresh" /\ r.owner = "get"}

\* C30 (as claimed): no two overlapping getToken calls submit the same
\* refresh token, and a getToken call whose refresh fails does not clear a
\* session whose stored refresh token another call has replaced meanwhile.
C30_RefreshSubmittedOnce ==
  /\ [](\A r1, r2 \in GetRefreshesInFlight : r1 # r2 => r1.rt # r2.rt)
  /\ [][(/\ last'.op = "getToken.refreshFailed" /\ last' # last
         /\ Truthy(storage.access_token) /\ storage.refresh_token # last'.rt)
        => storage' = storage]_vars

\* C31 (as claimed): once logout has run on a page, no answer to a request
\* that was in flight writes tokens back into sessionStorage or makes the
\* session authenticated.
C31_LogoutIsFinal ==
  loggedOut =>
    /\ ~isAuthenticated
    /\ storage.access_token = NONE
    /\ storage.id_token = NONE
    /\ storage.refresh_token = NONE

\* C32 (as claimed): whenever isLoading is false, no callback exchange is in
\* flight.
C32_LoadingCoversExchange == ~isLoading => ExchangesInFlight = {}

\* C35 (as claimed): when getToken returns null for a session that was
\* authenticated, the session is unauthenticated afterwards.
C35_NullMeansUnauthenticated ==
  (last.op \in {"getToken.null", "getToken.refreshFailed"} /\ last.wasAuth)
    => ~isAuthenticated

\* the runs that complete handleCallback, checkExistingAuth, getToken, logout
CompletedOperation ==
  \/ last.op \in {"handleCallback.done", "handleCallback.failed",
                   "handleCallback.exchangeFailed",
                   "checkExistingAuth.refreshed", "checkExistingAuth.refreshFailed",
                   "getToken.valid", "getToken.null", "getToken.refreshed",
                   "getToken.refreshFailed", "logout"}
  \/ last.op \in {"handleCallback", "checkExistingAuth"} /\ ~last.sent

\* C36 (as claimed): after every completed operation the access token and the
\* id token of the controller state equal those of sessionStorage.
C36_StateMirrorsStorage ==
  CompletedOperation =>
    /\ accessToken = storage.access_token
    /\ idToken = storage.id_token

\* C37 (as claimed): a query request is sent only with the token getToken
\* returned for it, and none is sent when getToken returned no token.
C37_BearerIsValidatedToken ==
  (last.op \in {"getToken.valid", "getToken.null", "getToken.refreshed",
                "getToken.refreshFailed"} /\ last.bearer # NONE)
    => (Truthy(last.ret) /\ last.bearer = last.ret)

\* the user a start outside the callback page reads from sessionStorage st
RestartUser(st) == IF st.user # NoJSON THEN JSONparse(st.user) ELSE NullUser

\* C38 (as claimed): what a successful handleCallback leaves in sessionStorage
\* is the session it established (access token, id token, user), and a start
\* outside the callback page with an unexpired stored access token becomes
\* authenticated with exactly the stored access token, id token and user,
\* sending nothing.
C38_StorageRoundTrip ==
  /\ [](last.op = "handleCallback.done" =>
          /\ storage.access_token = accessToken
          /\ storage.id_token = idToken
          /\ RestartUser(storage) = user)
  /\ [][(/\ mounts' = mounts + 1 /\ pathname = "/"
         /\ Truthy(storage.access_token)
         /\ ~isTokenExpired(storage.access_token, now))
        => (/\ isAuthenticated'
            /\ accessToken' = storage.access_token
            /\ idToken' = storage.id_token
            /\ user' = RestartUser(storage)
            /\ net' = net /\ storage' = storage)]_vars

\* the page is a freshly loaded callback with a code and the persisted state
CallbackToProcess ==
  /\ pathname = "/callback" /\ mounts = 0
  /\ Truthy(query.code) /\ ~Truthy(query.error)
  /\ Truthy(query.state) /\ query.state = storage.oauth_state

\* C33 (as claimed): every callback that carries a code and the persisted
\* state is eventually processed, ending authenticated or with an error,
\* unless the page is left first.
C33_CallbackEventuallyProcessed ==
  \A n \in 0..MaxLoads :
    (CallbackToProcess /\ loads = n) ~> (isAuthenticated \/ Truthy(error) \/ loads # n)

\* C34: on every page isLoading eventually becomes false, and it stays false
\* until the next page load.
C34_LoadingEnds ==
  /\ \A n \in 0..MaxLoads : (loads = n) ~> (~isLoading \/ loads # n)
  /\ [][(~isLoading /\ isLoading') => loads' # loads]_vars

\* the startup refresh of a page failed and the page has left its loading state
C34_Witness ==
  /\ last.op = "checkExistingAuth.refreshFailed" /\ ~isLoading /\ net = {}

\* the keys of the form sent to the provider
FormKeys(params) == {p[1] : p \in params}

\* C39: the token endpoints of the backend contact the provider only when
\* the credential is present: without code, or without refreshToken, the
\* answer is 400 and nothing is sent; the exchange form carries the caller's
\* code_verifier exactly when the caller supplied one; no form carries a
\* client_secret; a provider status that is not a success is relayed.
C39_BackendTokenEndpoints ==
  /\ (call.fn = "oauthToken" /\ call.done) =>
       /\ call.out.contacted <=> Truthy(call.code)
       /\ ~Truthy(call.code) => (call.out.status = "400" /\ call.out.params = {})
       /\ call.out.contacted =>
            /\ ("code_verifier" \in FormKeys(call.out.params)) <=> Truthy(call.codeVerifier)
            /\ \A p \in call.out.params :
                 p[1] = "code_verifier" => p[2] = call.codeVerifier
            /\ <<"code", call.code>> \in call.out.params
            /\ "client_secret" \notin FormKeys(call.out.params)
            /\ call.provider \in ProviderStatuses => call.out.status = call.provider
  /\ (call.fn = "oauthRefresh" /\ call.done) =>
       /\ call.out.contacted <=> Truthy(call.refreshToken)
       /\ ~Truthy(call.refreshToken) => (call.out.status = "400" /\ call.out.params = {})
       /\ call.out.contacted =>
            /\ <<"refresh_token", call.refreshToken>> \in call.out.params
            /\ "client_secret" \notin FormKeys(call.out.params)
            /\ call.provider \in ProviderStatuses => call.out.status = call.provider

\* an exchange without a verifier reached the provider, which refused it
C39_Witness ==
  /\ call.fn = "oauthToken" /\ call.done
  /\ Truthy(call.code) /\ call.codeVerifier = NONE
  /\ call.provider = "401" /\ call.out.status = "401" /\ call.out.contacted

====
